---- MODULE Spec2Model ----
(***************************************************************************)
(* HydroSense dashboard (src/App.jsx): the synthetic sensor-signal         *)
(* generator, the capped history, the Force Refill handler, the status     *)
(* evaluation done by every render, and the lifetime of the interval       *)
(* timer.                                                                  *)
(*                                                                         *)
(* Numbers.  Every sensor value is an integer count of thousandths of its  *)
(* unit (pH 7.4 is 7400, 78.5 % is 78500), so that values that are NOT     *)
(* rounded to 2 or 1 decimals can be told from values that are.  The two   *)
(* smoothing steps (rates 0.08 and 0.03) are computed exactly, in units of *)
(* 1/100000.  Timestamps are integer milliseconds relative to the instant  *)
(* of the first render; toISOString() keeps their order.                   *)
(***************************************************************************)
EXTENDS Integers, Sequences, FiniteSets

VARIABLES
    history,    \* useState([]) : the capped series of samples
    current,    \* useState({...}) : the sample every render evaluates
    view,       \* what the last render computed: status, overallOk, alerts
    phase,      \* "created" | "rendered" | "mounted" | "unmounted"
    interval,   \* the setInterval timer: "none" | "active" | "cleared"
    now,        \* the clock (Date.now()), ms
    nextFire,   \* the instant the interval timer fires next, ms
    ticks,      \* number of timer ticks so far
    refills     \* number of Force Refill clicks so far

vars == <<history, current, view, phase, interval, now, nextFire, ticks, refills>>

----------------------------------------------------------------------------
(* Bounds of the exploration *)

MaxTicks == 3

MaxRefills == 2

----------------------------------------------------------------------------
(* Configuration *)

PH_MIN == 6500

PH_MAX == 8500

TURBIDITY_MAX == 5000

TEMPERATURE_MAX == 35000

LEVEL_MIN == 20000

INTERVAL_MS == 1800

HISTORY_POINTS == 40

InitialCurrent ==
    [timestamp |-> 0, pH |-> 7400, turbidity |-> 1500,
     temperature |-> 28000, waterLevelPercent |-> 78500]

----------------------------------------------------------------------------
(* Helpers *)

Min2(a, b) == IF a <= b THEN a ELSE b

Max2(a, b) == IF a >= b THEN a ELSE b

clamp(v, a, b) == Max2(a, Min2(b, v))

\* x.toFixed(d) of a value x >= 0 counted in units of 1/(q * 10^d): the
\* decimal digits, as the integer n nearest to x / q (the larger on a tie).
toFixed(x, q) == (x + q \div 2) \div q

\* Number(digits) of a d-decimal string, back in units of 1/(q * 10^d).
NumberOf(n, q) == n * q

\* approach(current, target, rate) + noise, with rate = ratePct / 100; the
\* argument values are thousandths, the result is in units of 1/100000.
approach(cur, target, ratePct, noise) ==
    100 * cur + ratePct * (target - cur) + 100 * noise

\* jitter(prev, minDelta, maxDelta): d is the drawn magnitude, sign the drawn
\* direction.
jitter(prev, d, sign) == prev + d * sign

Last(s) == s[Len(s)]

\* arr.slice(-n)
SliceLast_KeepsOldest(s, n) == IF Len(s) <= n THEN s ELSE SubSeq(s, 1, n)

SliceLast(s, n) == IF Len(s) <= n THEN s ELSE SubSeq(s, Len(s) - n + 1, Len(s))

----------------------------------------------------------------------------
(* Status evaluation: the body of every render *)

StatusOf_StrictBounds(c) ==
    [pH          |-> IF c.pH > PH_MIN /\ c.pH < PH_MAX THEN "ok" ELSE "bad",
     turbidity   |-> IF c.turbidity < TURBIDITY_MAX THEN "ok" ELSE "bad",
     temperature |-> IF c.temperature < TEMPERATURE_MAX THEN "ok" ELSE "warn",
     waterLevel  |-> IF c.waterLevelPercent > LEVEL_MIN THEN "ok" ELSE "bad"]

StatusOf(c) ==
    [pH          |-> IF c.pH >= PH_MIN /\ c.pH <= PH_MAX THEN "ok" ELSE "bad",
     turbidity   |-> IF c.turbidity <= TURBIDITY_MAX THEN "ok" ELSE "bad",
     temperature |-> IF c.temperature <= TEMPERATURE_MAX THEN "ok" ELSE "warn",
     waterLevel  |-> IF c.waterLevelPercent >= LEVEL_MIN THEN "ok" ELSE "bad"]

OverallOk_OnlyOk(status) == \A k \in DOMAIN status : status[k] = "ok"

OverallOk(status) == \A k \in DOMAIN status : status[k] \in {"ok", "warn"}

\* format(v, 2): the digits of Number(v).toFixed(2), as a count of hundredths
format(v) == toFixed(v, 10)

\* Each alert stands for its message: the channel it names, the value it
\* embeds and the threshold(s) it embeds.
Alerts(c, status) ==
    (IF status.pH = "bad"
        THEN <<[channel |-> "pH", value |-> format(c.pH),
                thresholds |-> <<PH_MIN, PH_MAX>>]>>
        ELSE <<>>)
    \o (IF status.turbidity = "bad"
        THEN <<[channel |-> "turbidity", value |-> format(c.turbidity),
                thresholds |-> <<TURBIDITY_MAX>>]>>
        ELSE <<>>)
    \o (IF status.waterLevel = "bad"
        THEN <<[channel |-> "waterLevel", value |-> c.waterLevelPercent,
                thresholds |-> <<LEVEL_MIN>>]>>
        ELSE <<>>)

Render(c) ==
    LET status == StatusOf(c)
    IN  [status |-> status, overallOk |-> OverallOk(status),
         alerts |-> Alerts(c, status)]

\* Before the first render nothing has been computed.
NoView ==
    [status |-> [pH |-> "none", turbidity |-> "none", temperature |-> "none",
                 waterLevel |-> "none"],
     overallOk |-> FALSE, alerts |-> <<>>]

----------------------------------------------------------------------------
(* Seeding (the mount effect) *)

\* The draws of one seeding run.  Each jitter draws a magnitude and a
\* direction; dir says how the 40 directions fall: all up, all down, or
\* alternating.  refillAt holds the steps on which the 3 % refill fires.
SeedDraws ==
    { [pH |-> 80, pHDir |-> "up", turbidity |-> 399, turbidityDir |-> "up",
       temperature |-> 199, temperatureDir |-> "up", decline |-> 599,
       refillAt |-> {}, refillTo |-> 75000],
      [pH |-> 79, pHDir |-> "down", turbidity |-> 399, turbidityDir |-> "down",
       temperature |-> 199, temperatureDir |-> "down", decline |-> 20,
       refillAt |-> {20}, refillTo |-> 87654],
      [pH |-> 13, pHDir |-> "alt", turbidity |-> 123, turbidityDir |-> "alt",
       temperature |-> 57, temperatureDir |-> "up", decline |-> 333,
       refillAt |-> {39}, refillTo |-> 99999] }

Sign(dir, i) ==
    CASE dir = "up" -> 1
      [] dir = "down" -> -1
      [] OTHER -> IF i % 2 = 0 THEN 1 ELSE -1

SeedStep_ReversedTime(prev, i, d, t0) ==
    [timestamp |-> t0 - (i + 1) * INTERVAL_MS,
     pH |-> clamp(jitter(prev.pH, d.pH, Sign(d.pHDir, i)), 5500, 9500),
     turbidity |->
        clamp(jitter(prev.turbidity, d.turbidity, Sign(d.turbidityDir, i)), 0, 12000),
     temperature |->
        clamp(jitter(prev.temperature, d.temperature, Sign(d.temperatureDir, i)),
              18000, 42000),
     waterLevelPercent |->
        IF i \in d.refillAt
            THEN clamp(d.refillTo, 0, 100000)
            ELSE clamp(prev.waterLevelPercent - d.decline, 0, 100000)]

SeedStep(prev, i, d, t0) ==
    [timestamp |-> t0 - (HISTORY_POINTS - i) * INTERVAL_MS,
     pH |-> clamp(jitter(prev.pH, d.pH, Sign(d.pHDir, i)), 5500, 9500),
     turbidity |->
        clamp(jitter(prev.turbidity, d.turbidity, Sign(d.turbidityDir, i)), 0, 12000),
     temperature |->
        clamp(jitter(prev.temperature, d.temperature, Sign(d.temperatureDir, i)),
              18000, 42000),
     waterLevelPercent |->
        IF i \in d.refillAt
            THEN clamp(d.refillTo, 0, 100000)
            ELSE clamp(prev.waterLevelPercent - d.decline, 0, 100000)]

RECURSIVE SeedHistory(_, _, _, _, _)
SeedHistory(h, prev, i, d, t0) ==
    IF i >= HISTORY_POINTS
        THEN h
        ELSE LET p == SeedStep(prev, i, d, t0)
             IN  SeedHistory(Append(h, p), p, i + 1, d, t0)

----------------------------------------------------------------------------
(* One timer tick *)

\* The draws of one tick.  spike, increase and refill hold the drawn amount
\* when their event fires and are empty when it does not.
TickDraws ==
    { [pHTarget |-> 6800, pHNoise |-> -30, turbNoise |-> -120, spike |-> <<>>,
       tempTarget |-> 26000, tempNoise |-> -50, decline |-> 499,
       increase |-> <<>>, refill |-> <<>>],
      [pHTarget |-> 7599, pHNoise |-> 29, turbNoise |-> 279, spike |-> <<5999>>,
       tempTarget |-> 30999, tempNoise |-> 119, decline |-> 50,
       increase |-> <<299>>, refill |-> <<>>],
      [pHTarget |-> 7200, pHNoise |-> 4, turbNoise |-> 83, spike |-> <<2000>>,
       tempTarget |-> 28500, tempNoise |-> 37, decline |-> 275,
       increase |-> <<>>, refill |-> <<99999>>],
      [pHTarget |-> 7013, pHNoise |-> -7, turbNoise |-> 1, spike |-> <<>>,
       tempTarget |-> 27777, tempNoise |-> 61, decline |-> 123,
       increase |-> <<20>>, refill |-> <<78000>>] }

NextTurb_FirstClampTo50(last, r) ==
    LET nextTurb == clamp(last.turbidity + r.turbNoise, 0, 50000)
    IN  IF r.spike # <<>> THEN clamp(nextTurb + r.spike[1], 0, 50000) ELSE nextTurb

NextTurb(last, r) ==
    LET nextTurb == clamp(last.turbidity + r.turbNoise, 0, 20000)
    IN  IF r.spike # <<>> THEN clamp(nextTurb + r.spike[1], 0, 50000) ELSE nextTurb

NextPH(last, r) ==
    clamp(approach(last.pH, r.pHTarget, 8, r.pHNoise), 500000, 950000)

NextTemp(last, r) ==
    clamp(approach(last.temperature, r.tempTarget, 3, r.tempNoise), 1500000, 4500000)

NextLevel_NoFinalClamp(last, r) ==
    LET declined == last.waterLevelPercent - r.decline
        raised == IF r.increase # <<>> THEN declined + r.increase[1] ELSE declined
    IN  IF r.refill # <<>> THEN clamp(r.refill[1], 0, 100000) ELSE raised

NextLevel(last, r) ==
    LET declined == last.waterLevelPercent - r.decline
        raised == IF r.increase # <<>> THEN declined + r.increase[1] ELSE declined
        refilled == IF r.refill # <<>> THEN clamp(r.refill[1], 0, 100000) ELSE raised
    IN  clamp(refilled, 0, 100000)

NextPoint_Unrounded(last, r, t) ==
    [timestamp |-> t,
     pH |-> NextPH(last, r) \div 100,
     turbidity |-> NextTurb(last, r),
     temperature |-> NextTemp(last, r) \div 100,
     waterLevelPercent |-> NextLevel(last, r)]

NextPoint(last, r, t) ==
    [timestamp |-> t,
     pH |-> NumberOf(toFixed(NextPH(last, r), 1000), 10),
     turbidity |-> NumberOf(toFixed(NextTurb(last, r), 10), 10),
     temperature |-> NumberOf(toFixed(NextTemp(last, r), 10000), 100),
     waterLevelPercent |-> NumberOf(toFixed(NextLevel(last, r), 100), 100)]

----------------------------------------------------------------------------
(* Force Refill *)

\* The draws of one click: the refill level and how long after the previous
\* event the click comes.
ClickDraws ==
    { [level |-> 82000, delay |-> 0],
      [level |-> 91234, delay |-> 700],
      [level |-> 99999, delay |-> 1800] }

Refill_OverwritesReadings(last, c, t) ==
    [InitialCurrent EXCEPT !.waterLevelPercent = clamp(c.level, 0, 100000),
                           !.timestamp = t]

Refill(last, c, t) ==
    [last EXCEPT !.waterLevelPercent = clamp(c.level, 0, 100000),
                 !.timestamp = t]

----------------------------------------------------------------------------
(* The effect's cleanup *)

ClearInterval_Leak(i) == i

ClearInterval(i) == "cleared"

----------------------------------------------------------------------------
(* Actions *)

Init ==
    /\ history = <<>>
    /\ current = InitialCurrent
    /\ view = NoView
    /\ phase = "created"
    /\ interval = "none"
    /\ now = 0
    /\ nextFire = 0
    /\ ticks = 0
    /\ refills = 0

\* A render of the component before its effect has run: the first render.
Evaluate ==
    /\ phase = "created"
    /\ view' = Render(current)
    /\ phase' = "rendered"
    /\ UNCHANGED <<history, current, interval, now, nextFire, ticks, refills>>

\* useEffect(() => {...}, []): seed the history, start the timer.
Mount ==
    /\ phase = "rendered"
    /\ \E d \in SeedDraws :
          LET h == SeedHistory(<<>>, current, 0, d, now)
          IN  /\ history' = h
              /\ current' = Last(h)
              /\ view' = Render(Last(h))
    /\ phase' = "mounted"
    /\ interval' = "active"
    /\ nextFire' = now + INTERVAL_MS
    /\ UNCHANGED <<now, ticks, refills>>

\* The tick as it would be if it started from the rendered sample instead of
\* the history's last element.
Tick_FromCurrent ==
    /\ interval = "active"
    /\ ticks < MaxTicks
    /\ \E r \in TickDraws :
          LET nextPoint == NextPoint(current, r, nextFire)
          IN  /\ history' = SliceLast(Append(history, nextPoint), HISTORY_POINTS)
              /\ current' = nextPoint
              /\ view' = Render(nextPoint)
    /\ now' = nextFire
    /\ nextFire' = nextFire + INTERVAL_MS
    /\ ticks' = ticks + 1
    /\ UNCHANGED <<phase, interval, refills>>

\* The setInterval callback, with the updater it hands to setHistory and the
\* render that follows.
Tick ==
    /\ interval = "active"
    /\ ticks < MaxTicks
    /\ \E r \in TickDraws :
          LET last == IF Len(history) > 0 THEN Last(history) ELSE InitialCurrent
              nextPoint == NextPoint(last, r, nextFire)
          IN  /\ history' = SliceLast(Append(history, nextPoint), HISTORY_POINTS)
              /\ current' = nextPoint
              /\ view' = Render(nextPoint)
    /\ now' = nextFire
    /\ nextFire' = nextFire + INTERVAL_MS
    /\ ticks' = ticks + 1
    /\ UNCHANGED <<phase, interval, refills>>

\* The Force Refill button's onClick, and the render that follows.
ForceRefill ==
    /\ phase = "mounted"
    /\ Len(history) > 0
    /\ refills < MaxRefills
    /\ \E c \in ClickDraws :
          /\ now + c.delay <= nextFire
          /\ LET refill == Refill(Last(history), c, now + c.delay)
             IN  history' = SliceLast(Append(history, refill), HISTORY_POINTS)
          /\ now' = now + c.delay
    /\ view' = Render(current)
    /\ refills' = refills + 1
    /\ UNCHANGED <<current, phase, interval, nextFire, ticks>>

\* View teardown: the cleanup the effect returned.
Unmount ==
    /\ phase = "mounted"
    /\ phase' = "unmounted"
    /\ interval' = ClearInterval(interval)
    /\ UNCHANGED <<history, current, view, now, nextFire, ticks, refills>>

Next == Evaluate \/ Mount \/ Tick \/ ForceRefill \/ Unmount

Spec == Init /\ [][Next]_vars

----------------------------------------------------------------------------
(* The status evaluation on its own: the first render of the component,    *)
(* for every sample of a grid around the thresholds and the range ends.    *)

EvalSamples ==
    { [timestamp |-> 0, pH |-> p, turbidity |-> tb, temperature |-> tp,
       waterLevelPercent |-> lv] :
        p \in {5000, 6499, 6500, 7400, 8500, 8501, 9500},
        tb \in {0, 5000, 5001, 26000},
        tp \in {15000, 35000, 35001, 45000},
        lv \in {0, 19999, 20000, 100000} }

EvalInit ==
    /\ history = <<>>
    /\ current \in EvalSamples
    /\ view = NoView
    /\ phase = "created"
    /\ interval = "none"
    /\ now = 0
    /\ nextFire = 0
    /\ ticks = 0
    /\ refills = 0

EvalNext == Evaluate

EvalSpec == EvalInit /\ [][EvalNext]_vars

----------------------------------------------------------------------------
(* Properties *)

Seeded == phase \in {"mounted", "unmounted"}

Appended == ticks' # ticks \/ refills' # refills

\* C1: history never holds more than 40 samples, and every append to a full
\* history (a timer tick or a Force Refill) removes exactly the oldest entry
\* and keeps the others in their order, followed by the new sample.
C1_HistoryCappedFifo ==
    /\ [](Len(history) <= 40)
    /\ [][(Appended /\ Len(history) = 40)
            => /\ Len(history') = 40
               /\ SubSeq(history', 1, 39) = Tail(history)]_vars

C1_Witness ==
    /\ Len(history) = 40
    /\ ticks >= 1
    /\ refills >= 1
    /\ history[1].timestamp > 0 - 40 * 1800

\* C2: once history is seeded, the sample the render evaluates (current) is
\* the last element of history.
C2_CurrentIsLatest == Seeded => current = Last(history)

\* C3 (as claimed): every sample a timer tick produces has turbidity in
\* [0,20].  Each such sample is current right after its tick.
C3_TickTurbidityWithin20 ==
    ticks > 0 => (current.turbidity >= 0 /\ current.turbidity <= 20000)

\* C3 (amended): every sample a timer tick produces has turbidity in [0,26].
C3_TickTurbidityWithin26 ==
    ticks > 0 => (current.turbidity >= 0 /\ current.turbidity <= 26000)

C3_Witness == ticks > 0 /\ current.turbidity > 20000

\* C4: every sample of history (and current) has pH in [5.0,9.5],
\* temperature in [15,45] and waterLevelPercent in [0,100].
C4_InRange(s) ==
    /\ s.pH >= 5000 /\ s.pH <= 9500
    /\ s.temperature >= 15000 /\ s.temperature <= 45000
    /\ s.waterLevelPercent >= 0 /\ s.waterLevelPercent <= 100000

C4_ChannelsInRange ==
    /\ \A i \in 1..Len(history) : C4_InRange(history[i])
    /\ C4_InRange(current)

\* A tick whose level was held at 100 by the final clamp, after a refill click.
C4_Witness ==
    /\ ticks >= 1
    /\ refills >= 1
    /\ \E i \in 1..Len(history) :
          /\ history[i].timestamp > 0
          /\ history[i].waterLevelPercent = 100000
    /\ \E i \in 1..Len(history) : history[i].pH = 9500

IsRounded(s) ==
    /\ s.pH % 10 = 0
    /\ s.turbidity % 10 = 0
    /\ s.temperature % 100 = 0
    /\ s.waterLevelPercent % 100 = 0

\* C5 (as claimed): every sample stored in history is rounded: pH and
\* turbidity to 0.01, temperature and waterLevelPercent to 0.1.
C5_AllStoredRounded == \A i \in 1..Len(history) : IsRounded(history[i])

\* C5 (amended): every sample a timer tick produces is rounded: pH and
\* turbidity to 0.01, temperature and waterLevelPercent to 0.1.  Each such
\* sample is current right after its tick.
C5_TickSamplesRounded == ticks > 0 => IsRounded(current)

\* A tick that started from a sample that was not rounded.
C5_Witness ==
    /\ ticks = 1
    /\ Len(history) = 40
    /\ ~IsRounded(history[39])
    /\ current = history[40]

\* C6: a Force Refill appends a sample with waterLevelPercent in [82,100] and
\* the pH, turbidity and temperature of the previously last element, and
\* leaves every earlier entry as it was, the oldest being evicted when the
\* history was full.
C6_ForceRefillFrame ==
    [][(refills' # refills)
        => /\ Last(history').waterLevelPercent >= 82000
           /\ Last(history').waterLevelPercent <= 100000
           /\ Last(history').pH = Last(history).pH
           /\ Last(history').turbidity = Last(history).turbidity
           /\ Last(history').temperature = Last(history).temperature
           /\ IF Len(history) < 40
                 THEN SubSeq(history', 1, Len(history)) = history
                 ELSE SubSeq(history', 1, 39) = Tail(history)]_vars

\* A refill that copied a sample a tick had produced.
C6_Witness ==
    /\ refills >= 1
    /\ ticks >= 1
    /\ Len(history) = 40
    /\ history[40] # current
    /\ history[40].waterLevelPercent >= 82000
    /\ history[40].pH = current.pH
    /\ history[39] = current

C7_Bad == {k \in DOMAIN view.status : view.status[k] = "bad"}

\* C7: overallSafe holds exactly when no channel is bad; the alerts are one
\* per bad channel among pH, turbidity and water level, none for temperature;
\* so overallSafe holds exactly when there is no alert.
C7_OverallAndAlerts ==
    phase # "created" =>
        /\ view.overallOk = (C7_Bad = {})
        /\ {view.alerts[i].channel : i \in 1..Len(view.alerts)}
              = C7_Bad \cap {"pH", "turbidity", "waterLevel"}
        /\ Len(view.alerts) = Cardinality(C7_Bad \cap {"pH", "turbidity", "waterLevel"})
        /\ \A i \in 1..Len(view.alerts) : view.alerts[i].channel # "temperature"
        /\ view.overallOk = (view.alerts = <<>>)

C7_Witness ==
    /\ phase = "rendered"
    /\ view.status.temperature = "warn"
    /\ view.overallOk
    /\ view.alerts = <<>>

\* C8: under the default thresholds pH is ok iff 6.5 <= pH <= 8.5 and bad
\* otherwise, turbidity is ok iff <= 5 and bad otherwise, water level is ok iff
\* >= 20 and bad otherwise, temperature is warn iff > 35 and ok otherwise.
C8_ThresholdRules ==
    phase # "created" =>
        /\ view.status.pH =
              (IF current.pH >= 6500 /\ current.pH <= 8500 THEN "ok" ELSE "bad")
        /\ view.status.turbidity =
              (IF current.turbidity <= 5000 THEN "ok" ELSE "bad")
        /\ view.status.waterLevel =
              (IF current.waterLevelPercent >= 20000 THEN "ok" ELSE "bad")
        /\ view.status.temperature =
              (IF current.temperature > 35000 THEN "warn" ELSE "ok")
        /\ view.status.temperature # "bad"

\* Every channel exactly on its threshold.
C8_Witness ==
    /\ phase = "rendered"
    /\ current.pH = 8500
    /\ current.turbidity = 5000
    /\ current.temperature = 35000
    /\ current.waterLevelPercent = 20000
    /\ view.status = [pH |-> "ok", turbidity |-> "ok", temperature |-> "ok",
                      waterLevel |-> "ok"]

\* C9: once the view is torn down the timer is cancelled, and no later step
\* appends to history or changes current.
C9_TimerStopsAtTeardown ==
    /\ [](phase = "unmounted" => interval = "cleared")
    /\ [][phase = "unmounted" => (history' = history /\ current' = current)]_vars

\* Torn down after a tick, with ticks still to come had the timer lived.
C9_Witness == phase = "unmounted" /\ ticks >= 1 /\ ticks < MaxTicks

\* C10: the timestamps of history never decrease from one element to the
\* next; right after seeding they increase strictly and lie before the mount
\* time.
C10_TimestampsOrdered ==
    /\ \A i \in 1..(Len(history) - 1) :
          history[i].timestamp <= history[i + 1].timestamp
    /\ (phase = "mounted" /\ ticks = 0 /\ refills = 0) =>
          /\ Len(history) = 40
          /\ \A i \in 1..39 : history[i].timestamp < history[i + 1].timestamp
          /\ history[40].timestamp < now

\* A refill in the same millisecond as the tick before it.
C10_Witness ==
    /\ ticks >= 1
    /\ refills >= 1
    /\ Len(history) = 40
    /\ history[39].timestamp = history[40].timestamp
    /\ history[38].timestamp < history[39].timestamp

\* C11: right after any timer tick current is the last element of history,
\* and that sample was derived from the element that was last before the
\* tick: it is the tick's result for some draw, and its water level is either
\* a tick refill (at least 78) or within the tick's decline and increase of
\* the previous last element's level, so a level set by Force Refill is where
\* the next tick starts.
C11_TickResyncsFromTail ==
    [][(ticks' # ticks /\ Len(history) > 0)
        => /\ current' = Last(history')
           /\ \E r \in TickDraws : current' = NextPoint(Last(history), r, nextFire)
           /\ \/ current'.waterLevelPercent >= 78000
              \/ /\ current'.waterLevelPercent <= Last(history).waterLevelPercent + 300
                 /\ current'.waterLevelPercent >= Last(history).waterLevelPercent - 550]_vars

\* A tick right after a Force Refill to 91.234: the refill sample is the
\* element before the last, and the tick's level is 91.234 - 0.499, rounded.
C11_Witness ==
    /\ ticks >= 1
    /\ refills >= 1
    /\ Len(history) = 40
    /\ history[39].waterLevelPercent = 91234
    /\ current = history[40]
    /\ current.waterLevelPercent = 90700
    /\ current.timestamp > history[39].timestamp

====
